---- MODULE Spec2Model ----
(***************************************************************************)
(* The Streamlit fitness-coach page of src/app.py: the profile form, the   *)
(* chat handler, the prompt builder and the Gemini adapter.                *)
(*                                                                         *)
(* A Python str is a sequence of one-character strings, so that prefixes,  *)
(* suffixes and substrings of the prompt are what they are in the program. *)
(* A float of the form (weight, height) is held in tenths: 70.0 is 700.    *)
(* A value stored in the profile dict carries its Python type, because the *)
(* f-string formats an int, a float and a str differently.                 *)
(***************************************************************************)
EXTENDS Integers, Sequences, FiniteSets, TLC

\* ------------------------------------------------------------------------
\* Bounds of the model
\* ------------------------------------------------------------------------

\* the number of chat turns a session may take
MaxTurns == 3

\* ------------------------------------------------------------------------
\* Literal text of the program
\* ------------------------------------------------------------------------

\* the template text from the opening quotes up to "- Age: " (app.py 35-40)
TemplateHead ==
  << "\n", " ", " ", " ", " ", "Y", "o", "u", " ", "a", "r", "e", " ", "\"",
     "C", "o", "a", "c", "h", "F", "i", "t", " ", "A", "I", "\"", ",", " ",
     "a", "n", " ", "e", "x", "p", "e", "r", "t", " ", "p", "e", "r", "s",
     "o", "n", "a", "l", " ", "t", "r", "a", "i", "n", "e", "r", " ", "a",
     "n", "d", " ", "n", "u", "t", "r", "i", "t", "i", "o", "n", "i", "s",
     "t", ".", " ", "\n", " ", " ", " ", " ", "Y", "o", "u", "r", " ", "g",
     "o", "a", "l", " ", "i", "s", " ", "t", "o", " ", "p", "r", "o", "v",
     "i", "d", "e", " ", "s", "a", "f", "e", ",", " ", "e", "f", "f", "e",
     "c", "t", "i", "v", "e", ",", " ", "a", "n", "d", " ", "p", "e", "r",
     "s", "o", "n", "a", "l", "i", "z", "e", "d", " ", "f", "i", "t", "n",
     "e", "s", "s", " ", "a", "n", "d", " ", "d", "i", "e", "t", " ", "a",
     "d", "v", "i", "c", "e", ".", "\n", "\n", " ", " ", " ", " ", "*", "*",
     "Y", "o", "u", "r", " ", "U", "s", "e", "r", "'", "s", " ", "P", "r",
     "o", "f", "i", "l", "e", ":", "*", "*", "\n", " ", " ", " ", " ", "-",
     " ", "A", "g", "e", ":", " " >>

\* the template text between the age and weight fields (app.py 40-41)
TemplateWeight ==
  << "\n", " ", " ", " ", " ", "-", " ", "W", "e", "i", "g", "h", "t", ":",
     " " >>

\* the template text between the weight and height fields (app.py 41-42)
TemplateHeight ==
  << " ", "k", "g", "\n", " ", " ", " ", " ", "-", " ", "H", "e", "i", "g",
     "h", "t", ":", " " >>

\* the template text between the height and goal fields (app.py 42-43)
TemplateGoal ==
  << " ", "c", "m", "\n", " ", " ", " ", " ", "-", " ", "F", "i", "t", "n",
     "e", "s", "s", " ", "G", "o", "a", "l", ":", " " >>

\* the template text between the goal and experience fields (app.py 43-44)
TemplateExperience ==
  << "\n", " ", " ", " ", " ", "-", " ", "E", "x", "p", "e", "r", "i", "e",
     "n", "c", "e", " ", "L", "e", "v", "e", "l", ":", " " >>

\* the template text between the experience field and the history (app.py 44-55)
TemplateTask ==
  << "\n", "\n", " ", " ", " ", " ", "*", "*", "Y", "o", "u", "r", " ", "T",
     "a", "s", "k", ":", "*", "*", "\n", " ", " ", " ", " ", "1", ".", " ",
     " ", "*", "*", "A", "l", "w", "a", "y", "s", "*", "*", " ", "u", "s",
     "e", " ", "t", "h", "e", " ", "u", "s", "e", "r", "'", "s", " ", "p",
     "r", "o", "f", "i", "l", "e", " ", "t", "o", " ", "t", "a", "i", "l",
     "o", "r", " ", "y", "o", "u", "r", " ", "a", "d", "v", "i", "c", "e",
     ".", "\n", " ", " ", " ", " ", "2", ".", " ", " ", "B", "e", " ", "e",
     "n", "c", "o", "u", "r", "a", "g", "i", "n", "g", ",", " ", "c", "l",
     "e", "a", "r", ",", " ", "a", "n", "d", " ", "p", "r", "o", "f", "e",
     "s", "s", "i", "o", "n", "a", "l", ".", "\n", " ", " ", " ", " ", "3",
     ".", " ", " ", "I", "f", " ", "y", "o", "u", " ", "p", "r", "o", "v",
     "i", "d", "e", " ", "a", " ", "w", "o", "r", "k", "o", "u", "t", " ",
     "p", "l", "a", "n", ",", " ", "f", "o", "r", "m", "a", "t", " ", "i",
     "t", " ", "c", "l", "e", "a", "r", "l", "y", " ", "(", "e", ".", "g",
     ".", ",", " ", "u", "s", "i", "n", "g", " ", "M", "a", "r", "k", "d",
     "o", "w", "n", " ", "t", "a", "b", "l", "e", "s", " ", "o", "r", " ",
     "l", "i", "s", "t", "s", ")", ".", "\n", " ", " ", " ", " ", "4", ".",
     " ", " ", "I", "f", " ", "t", "h", "e", " ", "u", "s", "e", "r", " ",
     "a", "s", "k", "s", " ", "f", "o", "r", " ", "s", "o", "m", "e", "t",
     "h", "i", "n", "g", " ", "o", "u", "t", "s", "i", "d", "e", " ", "o",
     "f", " ", "f", "i", "t", "n", "e", "s", "s", ",", " ", "n", "u", "t",
     "r", "i", "t", "i", "o", "n", ",", " ", "o", "r", " ", "w", "e", "l",
     "l", "n", "e", "s", "s", ",", "\n", " ", " ", " ", " ", " ", " ", " ",
     " ", "g", "e", "n", "t", "l", "y", " ", "r", "e", "m", "i", "n", "d",
     " ", "t", "h", "e", "m", " ", "y", "o", "u", " ", "a", "r", "e", " ",
     "a", " ", "f", "i", "t", "n", "e", "s", "s", " ", "c", "o", "a", "c",
     "h", " ", "a", "n", "d", " ", "c", "a", "n", "n", "o", "t", " ", "h",
     "e", "l", "p", " ", "w", "i", "t", "h", " ", "t", "h", "a", "t", ".",
     "\n", " ", " ", " ", " ", "5", ".", " ", " ", "K", "e", "e", "p", " ",
     "y", "o", "u", "r", " ", "a", "n", "s", "w", "e", "r", "s", " ", "c",
     "o", "n", "c", "i", "s", "e", " ", "b", "u", "t", " ", "i", "n", "f",
     "o", "r", "m", "a", "t", "i", "v", "e", ".", "\n", " ", " ", " ", " ",
     "\n", " ", " ", " ", " ", "*", "*", "C", "o", "n", "v", "e", "r", "s",
     "a", "t", "i", "o", "n", " ", "H", "i", "s", "t", "o", "r", "y", ":",
     "*", "*", "\n", " ", " ", " ", " " >>

\* the template text between the history and the query (app.py 55-58)
TemplateQuery ==
  << "\n", " ", " ", " ", " ", "\n", " ", " ", " ", " ", "*", "*", "U", "s",
     "e", "r", "'", "s", " ", "N", "e", "w", " ", "Q", "u", "e", "r", "y",
     ":", "*", "*", "\n", " ", " ", " ", " " >>

\* the template text after the query (app.py 58-61)
TemplateTail ==
  << "\n", " ", " ", " ", " ", "\n", " ", " ", " ", " ", "*", "*", "C", "o",
     "a", "c", "h", "F", "i", "t", " ", "A", "I", "'", "s", " ", "R", "e",
     "s", "p", "o", "n", "s", "e", ":", "*", "*", "\n", " ", " ", " ", " " >>

\* the default of every user_profile.get (app.py 40-44)
NotProvided ==
  << "N", "o", "t", " ", "p", "r", "o", "v", "i", "d", "e", "d" >>

\* the text before {e} in the except branch (app.py 29)
ErrorPrefix ==
  << "E", "r", "r", "o", "r", " ", "g", "e", "n", "e", "r", "a", "t", "i",
     "n", "g", " ", "r", "e", "s", "p", "o", "n", "s", "e", ":", " " >>

\* the role of a user message (app.py 127)
RoleUser ==
  << "u", "s", "e", "r" >>

\* the role of an assistant message (app.py 148)
RoleAssistant ==
  << "a", "s", "s", "i", "s", "t", "a", "n", "t" >>

\* goal option 1 (app.py 88)
GoalLoseWeight ==
  << "L", "o", "s", "e", " ", "W", "e", "i", "g", "h", "t" >>

\* goal option 2 (app.py 88)
GoalBuildMuscle ==
  << "B", "u", "i", "l", "d", " ", "M", "u", "s", "c", "l", "e" >>

\* goal option 3 (app.py 88)
GoalEndurance ==
  << "I", "m", "p", "r", "o", "v", "e", " ", "E", "n", "d", "u", "r", "a",
     "n", "c", "e" >>

\* goal option 4 (app.py 88)
GoalGeneral ==
  << "G", "e", "n", "e", "r", "a", "l", " ", "F", "i", "t", "n", "e", "s",
     "s" >>

\* goal option 5 (app.py 88)
GoalSkill ==
  << "L", "e", "a", "r", "n", " ", "a", " ", "s", "p", "e", "c", "i", "f",
     "i", "c", " ", "s", "k", "i", "l", "l", " ", "(", "e", ".", "g", ".",
     ",", " ", "p", "u", "l", "l", "-", "u", "p", ")" >>

\* experience option 1 (app.py 91)
ExpBeginner ==
  << "B", "e", "g", "i", "n", "n", "e", "r" >>

\* experience option 2 (app.py 91)
ExpIntermediate ==
  << "I", "n", "t", "e", "r", "m", "e", "d", "i", "a", "t", "e" >>

\* experience option 3 (app.py 91)
ExpAdvanced ==
  << "A", "d", "v", "a", "n", "c", "e", "d" >>

\* ------------------------------------------------------------------------
\* Python values and the string operations the program uses
\* ------------------------------------------------------------------------

Digits == << "0", "1", "2", "3", "4", "5", "6", "7", "8", "9" >>

Lowercase ==
  << "a", "b", "c", "d", "e", "f", "g", "h", "i", "j", "k", "l", "m",
     "n", "o", "p", "q", "r", "s", "t", "u", "v", "w", "x", "y", "z" >>

Uppercase ==
  << "A", "B", "C", "D", "E", "F", "G", "H", "I", "J", "K", "L", "M",
     "N", "O", "P", "Q", "R", "S", "T", "U", "V", "W", "X", "Y", "Z" >>

PyInt(n) == [t |-> "int", v |-> n]
PyFloat(tenths) == [t |-> "float", v |-> tenths]
PyStr(s) == [t |-> "str", v |-> s]

\* str(n) of a non-negative int
RECURSIVE IntStr(_)
IntStr(n) ==
  IF n < 10 THEN << Digits[n + 1] >>
  ELSE IntStr(n \div 10) \o << Digits[(n % 10) + 1] >>

\* str(x) of a non-negative float with one decimal, held in tenths
FloatStr(tenths) == IntStr(tenths \div 10) \o << "." >> \o << Digits[(tenths % 10) + 1] >>

\* what an f-string field {x} renders for a value x
Format(x) ==
  CASE x.t = "int" -> IntStr(x.v)
    [] x.t = "float" -> FloatStr(x.v)
    [] x.t = "str" -> x.v

IsLower(c) == \E i \in 1..26 : Lowercase[i] = c
IsUpper(c) == \E i \in 1..26 : Uppercase[i] = c
IsCased(c) == IsLower(c) \/ IsUpper(c)
ToUpper(c) == IF IsLower(c) THEN Uppercase[CHOOSE i \in 1..26 : Lowercase[i] = c] ELSE c
ToLower(c) == IF IsUpper(c) THEN Lowercase[CHOOSE i \in 1..26 : Uppercase[i] = c] ELSE c

\* str.title(): a cased character is upper-cased when it starts a word and
\* lower-cased when it follows a cased character
Title(s) ==
  [i \in 1..Len(s) |->
     IF i > 1 /\ IsCased(s[i - 1]) THEN ToLower(s[i]) ELSE ToUpper(s[i])]

\* dict.get(key, default)
DictGet(d, key, default) == IF key \in DOMAIN d THEN d[key] ELSE default

\* d[key] = value on a dict
DictPut(d, key, value) ==
  [k \in DOMAIN d \cup {key} |-> IF k = key THEN value ELSE d[k]]

\* the empty dict {}
EmptyDict == [k \in {} |-> 0]

\* list.index(x): the first position of x
ListIndex(list, x) == CHOOSE i \in 1..Len(list) : list[i] = x /\ \A j \in 1..(i - 1) : list[j] # x

\* ------------------------------------------------------------------------
\* Inputs
\* ------------------------------------------------------------------------

\* what .streamlit/secrets.toml may hold: no key, a key the service
\* rejects, a key the service accepts
SecretsFiles ==
  { EmptyDict, [GEMINI_API_KEY |-> "bad"], [GEMINI_API_KEY |-> "good"] }

\* what the user may submit in the form: numbers typed in the three number
\* fields (some out of range) and options picked in the two select boxes
\* (0: the box left untouched)
FormInputs ==
  { [age |-> 15, weight |-> 399, height |-> 1399, goal |-> 0, experience |-> 0],
    [age |-> 16, weight |-> 400, height |-> 1400, goal |-> 1, experience |-> 1],
    [age |-> 100, weight |-> 2000, height |-> 2300, goal |-> 5, experience |-> 3],
    [age |-> 101, weight |-> 2001, height |-> 2301, goal |-> 2, experience |-> 2],
    [age |-> 30, weight |-> 725, height |-> 1805, goal |-> 3, experience |-> 0] }

\* what the user may type in the chat input
Queries == { << "h", "i" >>, << "B", "?" >> }

\* what the service may answer, and the str(e) of what it may raise
ResponseTexts == { << "O", "K" >> }
ErrorDetails == { << "4", "2", "9" >> }

Outcomes ==
  [ok : {TRUE}, text : ResponseTexts] \cup [ok : {FALSE}, text : ErrorDetails]

\* ------------------------------------------------------------------------
\* Program constants
\* ------------------------------------------------------------------------

AgeMin == 16
AgeMax == 100
AgeDefault == 25
WeightMin == 400
WeightMax == 2000
WeightDefault == 700
HeightMin == 1400
HeightMax == 2300
HeightDefault == 1750

GoalOptions ==
  << GoalLoseWeight, GoalBuildMuscle, GoalEndurance, GoalGeneral, GoalSkill >>

ExperienceOptions == << ExpBeginner, ExpIntermediate, ExpAdvanced >>

ProfileKeys == {"age", "weight", "height", "goal", "experience"}

\* ------------------------------------------------------------------------
\* The prompt builder and the adapter
\* ------------------------------------------------------------------------

\* the history and the query in each other's slot
build_agent_prompt_swapped(user_profile, chat_history, user_query) ==
  TemplateHead
    \o Format(DictGet(user_profile, "age", PyStr(NotProvided)))
    \o TemplateWeight
    \o Format(DictGet(user_profile, "weight", PyStr(NotProvided)))
    \o TemplateHeight
    \o Format(DictGet(user_profile, "height", PyStr(NotProvided)))
    \o TemplateGoal
    \o Format(DictGet(user_profile, "goal", PyStr(NotProvided)))
    \o TemplateExperience
    \o Format(DictGet(user_profile, "experience", PyStr(NotProvided)))
    \o TemplateTask
    \o user_query
    \o TemplateQuery
    \o chat_history
    \o TemplateTail

\* the weight looked up without a default, which renders None when absent
build_agent_prompt_none(user_profile, chat_history, user_query) ==
  TemplateHead
    \o Format(DictGet(user_profile, "age", PyStr(NotProvided)))
    \o TemplateWeight
    \o Format(DictGet(user_profile, "weight", PyStr(<< "N", "o", "n", "e" >>)))
    \o TemplateHeight
    \o Format(DictGet(user_profile, "height", PyStr(NotProvided)))
    \o TemplateGoal
    \o Format(DictGet(user_profile, "goal", PyStr(NotProvided)))
    \o TemplateExperience
    \o Format(DictGet(user_profile, "experience", PyStr(NotProvided)))
    \o TemplateTask
    \o chat_history
    \o TemplateQuery
    \o user_query
    \o TemplateTail

build_agent_prompt(user_profile, chat_history, user_query) ==
  TemplateHead
    \o Format(DictGet(user_profile, "age", PyStr(NotProvided)))
    \o TemplateWeight
    \o Format(DictGet(user_profile, "weight", PyStr(NotProvided)))
    \o TemplateHeight
    \o Format(DictGet(user_profile, "height", PyStr(NotProvided)))
    \o TemplateGoal
    \o Format(DictGet(user_profile, "goal", PyStr(NotProvided)))
    \o TemplateExperience
    \o Format(DictGet(user_profile, "experience", PyStr(NotProvided)))
    \o TemplateTask
    \o chat_history
    \o TemplateQuery
    \o user_query
    \o TemplateTail

\* the loop that renders the messages before the last one
RECURSIVE HistoryLoop(_, _)
HistoryLoop(msgs, history_string) ==
  IF msgs = << >> THEN history_string
  ELSE HistoryLoop(Tail(msgs),
         history_string \o << "*", "*" >> \o Title(Head(msgs).role)
           \o << "*", "*", ":", " " >> \o Head(msgs).content \o << "\n", "\n" >>)

\* the whole list, the current query included
AllMessages(msgs) == msgs

\* messages[:-1]
AllButLast(msgs) == SubSeq(msgs, 1, Len(msgs) - 1)

\* an except branch that returns the bare details
get_gemini_response_bare(prompt_text, outcome) == outcome.text

\* the try/except of the adapter: the text of the response, or the error
\* string when the model or the request raises
get_gemini_response(prompt_text, outcome) ==
  IF outcome.ok THEN outcome.text ELSE ErrorPrefix \o outcome.text

\* the request raises whenever the configured key is one the service rejects
PossibleOutcomes(key) == IF key = "good" THEN Outcomes ELSE {o \in Outcomes : ~o.ok}

\* ------------------------------------------------------------------------
\* The widgets of the profile form
\* ------------------------------------------------------------------------

\* a number field that takes any entry
number_input_unchecked(min_value, max_value, value, entered) == entered

\* a number field keeps its value unless the entry lies within its range
number_input(min_value, max_value, value, entered) ==
  IF min_value <= entered /\ entered <= max_value THEN entered ELSE value

\* a select box returns the picked option, or the option at index
selectbox(options, index, picked) ==
  IF picked \in 1..Len(options) THEN options[picked] ELSE options[index]

\* the dict the Save Profile handler stores, from the widgets' values
ProfileForm(user_profile, in) ==
  [age |-> PyInt(number_input(AgeMin, AgeMax,
                   DictGet(user_profile, "age", PyInt(AgeDefault)).v, in.age)),
   weight |-> PyFloat(number_input(WeightMin, WeightMax,
                   DictGet(user_profile, "weight", PyFloat(WeightDefault)).v, in.weight)),
   height |-> PyFloat(number_input(HeightMin, HeightMax,
                   DictGet(user_profile, "height", PyFloat(HeightDefault)).v, in.height)),
   goal |-> PyStr(selectbox(GoalOptions,
                   ListIndex(GoalOptions, DictGet(user_profile, "goal", PyStr(GoalGeneral)).v),
                   in.goal)),
   experience |-> PyStr(selectbox(ExperienceOptions,
                   ListIndex(ExperienceOptions,
                     DictGet(user_profile, "experience", PyStr(ExpBeginner)).v),
                   in.experience))]

\* ------------------------------------------------------------------------
\* The steps of a script run
\* ------------------------------------------------------------------------

\* st.secrets["GEMINI_API_KEY"] raises when the key is missing;
\* genai.configure stores the key without contacting the service
ConfigureRaises(secrets_file) == "GEMINI_API_KEY" \notin DOMAIN secrets_file

\* if "user_profile" not in st.session_state: ... = {}
ProfileInit(state) ==
  IF "user_profile" \notin DOMAIN state THEN DictPut(state, "user_profile", EmptyDict)
  ELSE state

\* the list set to [] on every run, whether or not it exists
MessagesReset(state) == DictPut(state, "messages", << >>)

\* if "messages" not in st.session_state: ... = []
MessagesInit(state) ==
  IF "messages" \notin DOMAIN state THEN DictPut(state, "messages", << >>)
  ELSE state

\* a profile gate that never stops the run
ProfileUnsetIgnored(state) == FALSE

\* not st.session_state.user_profile
ProfileUnset(state) == DOMAIN state["user_profile"] = {}

\* a message put in front of the list instead of at its end
MessagesPrepend(state, role, content) ==
  [state EXCEPT !["messages"] = << [role |-> role, content |-> content] >> \o @]

\* st.session_state.messages.append({"role": role, "content": content})
MessagesAppend(state, role, content) ==
  [state EXCEPT !["messages"] = Append(@, [role |-> role, content |-> content])]

\* ------------------------------------------------------------------------
\* State
\* ------------------------------------------------------------------------

VARIABLES
  secrets,         \* the secrets file, fixed for the life of the process
  api_key,         \* the key genai.configure stored ("none" before it)
  session_state,   \* st.session_state: a dict with user_profile and messages
  pc,              \* where the session is: start, halted, idle, or inside a chat run
  diagnostic,      \* whether st.error has shown the configuration error
  event,           \* the event the last script run served
  prompt,          \* the chat input of the current run
  history_string,  \* the local of the chat run
  full_prompt,     \* the local of the chat run
  response,        \* the local of the chat run
  raised,          \* whether the adapter's except branch ran in this run
  turns,           \* chat inputs that reached the handler
  builds,          \* calls of build_agent_prompt
  calls            \* calls of get_gemini_response

vars ==
  << secrets, api_key, session_state, pc, diagnostic, event, prompt,
     history_string, full_prompt, response, raised, turns, builds, calls >>

locals == << prompt, history_string, full_prompt, response, raised >>

Messages == DictGet(session_state, "messages", << >>)
Profile == DictGet(session_state, "user_profile", EmptyDict)

Init ==
  /\ secrets \in SecretsFiles
  /\ api_key = "none"
  /\ session_state = EmptyDict
  /\ pc = "start"
  /\ diagnostic = FALSE
  /\ event = "none"
  /\ prompt = << >>
  /\ history_string = << >>
  /\ full_prompt = << >>
  /\ response = << >>
  /\ raised = FALSE
  /\ turns = 0
  /\ builds = 0
  /\ calls = 0

\* a first run whose except branch shows the error and goes on
StartupNoStop ==
  /\ pc = "start"
  /\ diagnostic' = ConfigureRaises(secrets)
  /\ api_key' = DictGet(secrets, "GEMINI_API_KEY", "none")
  /\ session_state' = MessagesInit(ProfileInit(session_state))
  /\ pc' = "idle"
  /\ event' = "load"
  /\ UNCHANGED << secrets, locals, turns, builds, calls >>

\* the first script run, on page load: the configuration, then the sidebar
\* and the profile gate, which stops the run since no profile is saved
Startup ==
  /\ pc = "start"
  /\ IF ConfigureRaises(secrets)
       THEN /\ diagnostic' = TRUE
            /\ pc' = "halted"
            /\ UNCHANGED << api_key, session_state, event >>
       ELSE /\ api_key' = secrets["GEMINI_API_KEY"]
            /\ session_state' = MessagesInit(ProfileInit(session_state))
            /\ pc' = "idle"
            /\ event' = "load"
            /\ UNCHANGED diagnostic
  /\ UNCHANGED << secrets, locals, turns, builds, calls >>

\* the run with the Save Profile button pressed, and the run st.rerun() starts
SaveProfile(in) ==
  /\ pc = "idle"
  /\ ~ConfigureRaises(secrets)
  /\ LET first == ProfileInit(session_state)
         saved == DictPut(first, "user_profile", ProfileForm(first["user_profile"], in))
     IN session_state' = MessagesInit(ProfileInit(saved))
  /\ event' = "save"
  /\ UNCHANGED << secrets, api_key, pc, diagnostic, locals, turns, builds, calls >>

\* the run with a chat input: stopped at the profile gate, or the user
\* message appended
SubmitMessage(q) ==
  /\ pc = "idle"
  /\ ~ConfigureRaises(secrets)
  /\ turns < MaxTurns
  /\ event' = "submit"
  /\ LET state == MessagesInit(ProfileInit(session_state))
     IN IF ProfileUnset(state)
          THEN /\ session_state' = state
               /\ UNCHANGED << pc, prompt, turns >>
          ELSE /\ session_state' = MessagesAppend(state, RoleUser, q)
               /\ prompt' = q
               /\ turns' = turns + 1
               /\ pc' = "appended"
  /\ UNCHANGED << secrets, api_key, diagnostic, history_string, full_prompt,
                  response, raised, builds, calls >>

\* the history loop and the call of build_agent_prompt
BuildPrompt ==
  /\ pc = "appended"
  /\ history_string' = HistoryLoop(AllButLast(Messages), << >>)
  /\ full_prompt' = build_agent_prompt(Profile, history_string', prompt)
  /\ builds' = builds + 1
  /\ pc' = "built"
  /\ UNCHANGED << secrets, api_key, session_state, diagnostic, event, prompt,
                  response, raised, turns, calls >>

\* the call of get_gemini_response
GetResponse(outcome) ==
  /\ pc = "built"
  /\ outcome \in PossibleOutcomes(api_key)
  /\ response' = get_gemini_response(full_prompt, outcome)
  /\ raised' = ~outcome.ok
  /\ calls' = calls + 1
  /\ pc' = "responded"
  /\ UNCHANGED << secrets, api_key, session_state, diagnostic, event, prompt,
                  history_string, full_prompt, turns, builds >>

\* a run that ends without storing the response
AppendResponseSkipped ==
  /\ pc = "responded"
  /\ pc' = "idle"
  /\ prompt' = << >>
  /\ history_string' = << >>
  /\ full_prompt' = << >>
  /\ response' = << >>
  /\ raised' = FALSE
  /\ UNCHANGED << secrets, api_key, session_state, diagnostic, event, turns,
                  builds, calls >>

\* the assistant message appended; the run ends and its locals are gone
AppendResponse ==
  /\ pc = "responded"
  /\ session_state' = MessagesAppend(session_state, RoleAssistant, response)
  /\ pc' = "idle"
  /\ prompt' = << >>
  /\ history_string' = << >>
  /\ full_prompt' = << >>
  /\ response' = << >>
  /\ raised' = FALSE
  /\ UNCHANGED << secrets, api_key, diagnostic, event, turns, builds, calls >>

Next ==
  \/ Startup
  \/ \E in \in FormInputs : SaveProfile(in)
  \/ \E q \in Queries : SubmitMessage(q)
  \/ BuildPrompt
  \/ \E outcome \in Outcomes : GetResponse(outcome)
  \/ AppendResponse

Spec == Init /\ [][Next]_vars

\* ------------------------------------------------------------------------
\* The prompt builder on its own: any profile mapping, one query
\* ------------------------------------------------------------------------

\* values a profile field may hold
FieldPool ==
  [age : {PyInt(25), PyInt(100)},
   weight : {PyFloat(700), PyFloat(1255)},
   height : {PyFloat(1750), PyFloat(1400)},
   goal : {PyStr(GoalGeneral), PyStr(GoalSkill)},
   experience : {PyStr(ExpBeginner), PyStr(ExpAdvanced)}]

\* every mapping that holds a subset of the five fields
PartialProfiles ==
  { [k \in keys |-> full[k]] : full \in FieldPool, keys \in SUBSET ProfileKeys }

\* a chat run about to build its prompt, over any profile mapping
InitBuild ==
  /\ secrets = [GEMINI_API_KEY |-> "good"]
  /\ api_key = "good"
  /\ \E p \in PartialProfiles, q \in Queries :
       /\ session_state =
            [user_profile |-> p,
             messages |-> << [role |-> RoleUser, content |-> q] >>]
       /\ prompt = q
  /\ pc = "appended"
  /\ diagnostic = FALSE
  /\ event = "submit"
  /\ history_string = << >>
  /\ full_prompt = << >>
  /\ response = << >>
  /\ raised = FALSE
  /\ turns = 1
  /\ builds = 0
  /\ calls = 0

NextBuild == BuildPrompt

BuildSpec == InitBuild /\ [][NextBuild]_vars

\* ------------------------------------------------------------------------
\* Text predicates
\* ------------------------------------------------------------------------

StartsWith(s, p) == Len(p) <= Len(s) /\ SubSeq(s, 1, Len(p)) = p

EndsWith(s, p) == Len(p) <= Len(s) /\ SubSeq(s, Len(s) - Len(p) + 1, Len(s)) = p

Contains(s, p) ==
  \E i \in 1..(Len(s) - Len(p) + 1) : s[i] = p[1] /\ SubSeq(s, i, i + Len(p) - 1) = p

IsPrefix(s, t) == Len(s) <= Len(t) /\ SubSeq(t, 1, Len(s)) = s

InChatRun == pc \in {"appended", "built", "responded"}

SaveEnabled == ENABLED (\E in \in FormInputs : SaveProfile(in))

SubmitEnabled == ENABLED (\E q \in Queries : SubmitMessage(q))

\* ------------------------------------------------------------------------
\* C1
\* ------------------------------------------------------------------------

\* C1: while the profile is unset the transcript is empty, no prompt has
\* been built, the service has not been called and no chat run is under
\* way, whatever chat inputs have arrived.
C1_NoChatWithoutProfile ==
  DOMAIN Profile = {} =>
    /\ Messages = << >>
    /\ builds = 0
    /\ calls = 0
    /\ turns = 0
    /\ ~InChatRun

\* a chat input has arrived, and been served, with no profile saved
C1_Witness == event = "submit" /\ DOMAIN Profile = {} /\ pc = "idle"

\* ------------------------------------------------------------------------
\* C2
\* ------------------------------------------------------------------------

\* C2: a chat turn appends its user message, with the text typed, before the
\* prompt is built, and its assistant message after the service call has
\* returned; between events the transcript has 2k entries after k turns, and
\* its roles alternate user, assistant, from user.
C2_TurnAppendsPair ==
  /\ \A i \in 1..Len(Messages) :
       Messages[i].role = IF i % 2 = 1 THEN RoleUser ELSE RoleAssistant
  /\ ~InChatRun => Len(Messages) = 2 * turns /\ builds = turns /\ calls = turns
  /\ InChatRun =>
       /\ Len(Messages) = 2 * turns - 1
       /\ Messages[Len(Messages)].content = prompt
  /\ pc = "appended" => builds = turns - 1 /\ calls = turns - 1
  /\ pc = "built" => builds = turns /\ calls = turns - 1
  /\ pc = "responded" => builds = turns /\ calls = turns

\* two turns have been completed
C2_Witness == pc = "idle" /\ turns = 2 /\ Len(Messages) = 4

\* ------------------------------------------------------------------------
\* C3
\* ------------------------------------------------------------------------

C3_ErrorString == (pc = "responded" /\ raised) => StartsWith(response, ErrorPrefix)

C3_ErrorAppended ==
  (pc = "responded" /\ raised) =>
    /\ Messages' = Append(Messages, [role |-> RoleAssistant, content |-> response])
    /\ Profile' = Profile
    /\ DOMAIN Profile' = ProfileKeys
    /\ pc' = "idle"

C3_StillAccepting ==
  ( /\ pc = "idle"
    /\ Messages # << >>
    /\ StartsWith(Messages[Len(Messages)].content, ErrorPrefix)
    /\ turns < MaxTurns ) => SubmitEnabled

\* C3: when the service raises, the adapter returns a string that begins
\* with "Error generating response:"; the run appends that string as the
\* assistant message, leaves the profile as it was and returns to waiting
\* for events, where a further chat input is accepted.
C3_FailureIsInline ==
  /\ []C3_ErrorString
  /\ [][C3_ErrorAppended]_vars
  /\ []C3_StillAccepting

\* a turn that failed, followed by a turn that succeeded
C3_Witness ==
  /\ pc = "idle"
  /\ Len(Messages) = 4
  /\ StartsWith(Messages[2].content, ErrorPrefix)
  /\ ~StartsWith(Messages[4].content, ErrorPrefix)

\* ------------------------------------------------------------------------
\* C4
\* ------------------------------------------------------------------------

\* C4 as stated: the prompt ends with the text of the query.
C4_PromptEndsWithQuery == pc = "built" => EndsWith(full_prompt, prompt)

\* C4: the prompt ends with the query followed by the closing text of the
\* template, "\n    \n    **CoachFit AI's Response:**\n    ", and the query
\* stands right after the "**User's New Query:**" heading.
C4_PromptEndsWithQueryAndTail ==
  pc = "built" => EndsWith(full_prompt, TemplateQuery \o prompt \o TemplateTail)

\* a prompt built over a transcript that already holds a turn
C4_Witness == pc = "built" /\ Len(Messages) = 3 /\ DOMAIN Profile = ProfileKeys

\* ------------------------------------------------------------------------
\* C5
\* ------------------------------------------------------------------------

\* the text each value of the pool is shown as
ShownAs(x) ==
  CASE x = PyInt(25) -> << "2", "5" >>
    [] x = PyInt(100) -> << "1", "0", "0" >>
    [] x = PyFloat(700) -> << "7", "0", ".", "0" >>
    [] x = PyFloat(1255) -> << "1", "2", "5", ".", "5" >>
    [] x = PyFloat(1750) -> << "1", "7", "5", ".", "0" >>
    [] x = PyFloat(1400) -> << "1", "4", "0", ".", "0" >>
    [] x.t = "str" -> x.v

\* the line of the profile section that shows a field: its label, and what
\* follows the value up to the end of the line
FieldLabel ==
  [age |-> << "-", " ", "A", "g", "e", ":", " " >>,
   weight |-> << "-", " ", "W", "e", "i", "g", "h", "t", ":", " " >>,
   height |-> << "-", " ", "H", "e", "i", "g", "h", "t", ":", " " >>,
   goal |-> << "-", " ", "F", "i", "t", "n", "e", "s", "s", " ", "G", "o", "a",
               "l", ":", " " >>,
   experience |-> << "-", " ", "E", "x", "p", "e", "r", "i", "e", "n", "c", "e",
                     " ", "L", "e", "v", "e", "l", ":", " " >>]

FieldLineEnd ==
  [age |-> << "\n" >>,
   weight |-> << " ", "k", "g", "\n" >>,
   height |-> << " ", "c", "m", "\n" >>,
   goal |-> << "\n" >>,
   experience |-> << "\n" >>]

\* C5: for a profile mapping that holds any subset of the five fields, the
\* prompt is built, and the line of each field shows the field's value when
\* the mapping holds it and "Not provided" when it does not.
C5_MissingFieldsNotProvided ==
  pc = "built" =>
    \A k \in ProfileKeys :
      Contains(full_prompt,
        FieldLabel[k]
          \o (IF k \in DOMAIN Profile THEN ShownAs(Profile[k])
              ELSE << "N", "o", "t", " ", "p", "r", "o", "v", "i", "d", "e", "d" >>)
          \o FieldLineEnd[k])

\* a prompt built from a mapping that holds some fields and lacks others
C5_Witness ==
  /\ pc = "built"
  /\ DOMAIN Profile = {"age", "goal"}
  /\ Contains(full_prompt, << "W", "e", "i", "g", "h", "t", ":", " ", "N", "o", "t" >>)

\* ------------------------------------------------------------------------
\* C6
\* ------------------------------------------------------------------------

\* one transcript entry as the history shows it
HistoryBlock(m) ==
  << "*", "*" >>
    \o (IF m.role = << "u", "s", "e", "r" >> THEN << "U", "s", "e", "r" >>
        ELSE << "A", "s", "s", "i", "s", "t", "a", "n", "t" >>)
    \o << "*", "*", ":", " " >> \o m.content \o << "\n", "\n" >>

\* the first n entries of the transcript, as the history shows them
RECURSIVE HistoryOf(_)
HistoryOf(n) == IF n = 0 THEN << >> ELSE HistoryOf(n - 1) \o HistoryBlock(Messages[n])

\* C6: on turn k the history in the prompt is the 2(k-1) entries before the
\* current user message, in transcript order, each as "**Role**: content"
\* with the role capitalised and a blank line after it; the current query is
\* in the query slot only, and on the first turn the history is empty.
C6_HistoryIsPriorTurns ==
  pc = "built" =>
    /\ Len(Messages) = 2 * (turns - 1) + 1
    /\ history_string = HistoryOf(2 * (turns - 1))
    /\ turns = 1 => history_string = << >>
    /\ EndsWith(full_prompt,
         << "*", "*", "C", "o", "n", "v", "e", "r", "s", "a", "t", "i", "o", "n",
            " ", "H", "i", "s", "t", "o", "r", "y", ":", "*", "*", "\n",
            " ", " ", " ", " " >>
           \o history_string \o TemplateQuery \o prompt \o TemplateTail)

\* a prompt built on the second turn, over a history of two entries
C6_Witness == pc = "built" /\ turns = 2 /\ Len(history_string) > 0

\* ------------------------------------------------------------------------
\* C7
\* ------------------------------------------------------------------------

C7_SaveAlwaysOffered == pc = "idle" => SaveEnabled

C7_SaveKeepsTranscript ==
  \A in \in FormInputs :
    SaveProfile(in) =>
      /\ Messages' = Messages
      /\ DOMAIN Profile' = ProfileKeys
      /\ \A k \in ProfileKeys : Profile'[k] = ProfileForm(Profile, in)[k]
      /\ pc' = "idle"

\* C7: Save Profile is offered whenever the session waits for an event, with
\* or without a saved profile; it stores the five submitted fields as the
\* whole profile, leaves the transcript as it was, and the session goes on
\* waiting for events with a profile set.
C7_SaveOverwritesProfileOnly == []C7_SaveAlwaysOffered /\ [][C7_SaveKeepsTranscript]_vars

\* a profile saved over a transcript that holds a turn
C7_Witness == event = "save" /\ pc = "idle" /\ Len(Messages) >= 2

\* ------------------------------------------------------------------------
\* C8
\* ------------------------------------------------------------------------

\* C8: every step leaves the transcript it found as a prefix of the
\* transcript it leaves: entries are only ever added at the end.
C8_TranscriptAppendOnly == [][IsPrefix(Messages, Messages')]_vars

\* a second turn whose service call failed, about to append over a first turn
C8_Witness == pc = "responded" /\ raised /\ Len(Messages) = 3

\* ------------------------------------------------------------------------
\* C9
\* ------------------------------------------------------------------------

NoErrorReply ==
  \A i \in 1..Len(Messages) : ~StartsWith(Messages[i].content, ErrorPrefix)

\* C9 as stated: with the credential absent or invalid nothing is ever
\* served: no session state, no service call, no error reply in a transcript.
C9_BadCredentialHalts ==
  ("GEMINI_API_KEY" \notin DOMAIN secrets \/ secrets["GEMINI_API_KEY"] = "bad") =>
    /\ pc \in {"start", "halted"}
    /\ DOMAIN session_state = {}
    /\ calls = 0
    /\ NoErrorReply

\* C9: with the credential absent the first run shows the diagnostic and
\* stops: no session state, no profile, no transcript, no prompt and no
\* service call ever exist.
C9_AbsentCredentialHalts ==
  "GEMINI_API_KEY" \notin DOMAIN secrets =>
    /\ pc \in {"start", "halted"}
    /\ pc = "halted" => diagnostic
    /\ DOMAIN session_state = {}
    /\ builds = 0
    /\ calls = 0
    /\ turns = 0

\* the run stopped at the configuration error
C9_Witness == "GEMINI_API_KEY" \notin DOMAIN secrets /\ pc = "halted" /\ diagnostic

\* ------------------------------------------------------------------------
\* C10
\* ------------------------------------------------------------------------

C10_ProfileValid ==
  \/ DOMAIN Profile = {}
  \/ /\ DOMAIN Profile = {"age", "weight", "height", "goal", "experience"}
     /\ Profile["age"].t = "int" /\ Profile["age"].v \in 16..100
     /\ Profile["weight"].t = "float" /\ Profile["weight"].v \in 400..2000
     /\ Profile["height"].t = "float" /\ Profile["height"].v \in 1400..2300
     /\ Profile["goal"].v \in
          {GoalLoseWeight, GoalBuildMuscle, GoalEndurance, GoalGeneral, GoalSkill}
     /\ Profile["experience"].v \in {ExpBeginner, ExpIntermediate, ExpAdvanced}

C10_OnlySaveChangesProfile ==
  /\ (DOMAIN Profile' # DOMAIN Profile \/ \E k \in DOMAIN Profile : Profile'[k] # Profile[k])
       => \E in \in FormInputs : SaveProfile(in)
  /\ DOMAIN Profile # {} => DOMAIN Profile' # {}

\* C10: the stored profile is unset or holds all five fields, each within
\* its range or among its options; only Save Profile changes it, and once
\* set it is never unset again.
C10_ProfileUnsetOrValid == []C10_ProfileValid /\ [][C10_OnlySaveChangesProfile]_vars

\* a profile saved at the upper edge of its ranges, saved again with every
\* number out of range, and a chat turn completed after it
C10_Witness ==
  /\ pc = "idle"
  /\ event = "submit"
  /\ Len(Messages) = 2
  /\ DOMAIN Profile = ProfileKeys
  /\ Profile["age"].v = 100
  /\ Profile["weight"].v = 2000
  /\ Profile["height"].v = 2300
  /\ Profile["goal"].v = GoalBuildMuscle
====
